---- MODULE Spec2Model ----
(***************************************************************************)
(* Model of the retrieval subsystem of orah4/aipstedu (src/rag.py): the    *)
(* persisted chunk store (CHUNKS_PATH), the persisted vector index         *)
(* (FAISS_INDEX_PATH), the lazily loaded embedder, and the two operations  *)
(* ingest_text and search run by request-handling threads of one process;  *)
(* and of _format_context (src/agents.py), which formats search results.   *)
(*                                                                         *)
(* A text is modelled by its layout: a document identity, the number of    *)
(* leading whitespace characters, the number of body characters (first and *)
(* last of them non-blank) and the number of trailing whitespace           *)
(* characters.  A substring of a stripped text is the slice [doc, lo, hi)  *)
(* of that document; the empty string is one value whatever the document.  *)
(***************************************************************************)
EXTENDS Integers, Sequences, FiniteSets, TLC

\* ------------------------------------------------------------- constants
MAX_TEXT_LENGTH == 200000
DEFAULT_CHUNK_SIZE == 800
DEFAULT_MAX_CHUNKS == 200
BATCH_SIZE == 32
TOP_K == 5

DEFAULT_MAX_CHARS == 2000

\* ---------------------------------------------------------------- bounds
\* Calls started in one behaviour, and crashes of the process.
MaxCalls == 2
MaxCrashes == 1
\* Calls started in one behaviour of the one-at-a-time specifications.
MaxSeqCalls == 4
MaxBigCalls == 2
\* Whitespace characters before and after a text given to chunk_text.
MaxPad == 1
\* Hits given to _format_context.
MaxHits == 3
\* Calls started in one behaviour of the single-writer specification.
MaxSerialCalls == 3

\* the request-handling threads of the process
Threads == {"t1", "t2"}

Min(a, b) == IF a < b THEN a ELSE b
Max(a, b) == IF a > b THEN a ELSE b

\* ----------------------------------------------------------------- texts
EmptyText == [doc |-> 0, lo |-> 0, hi |-> 0]

Text(d, lead, body, trail) == [doc |-> d, lead |-> lead, body |-> body, trail |-> trail]

\* len(text) of a caller's text
RawLen(text) == text.lead + text.body + text.trail

\* str.strip(): the body without the surrounding whitespace
Strip(text) ==
    IF text.body = 0 THEN EmptyText
    ELSE [doc |-> text.doc, lo |-> text.lead, hi |-> text.lead + text.body]

\* len() of a stripped text or of a slice of one
TextLen(s) == s.hi - s.lo

\* Python's s[start:end]: negative indices count from the end, both are
\* clamped to [0, len], and an empty range gives the empty string.
PyIndex(i, n) == IF i < 0 THEN Max(i + n, 0) ELSE Min(i, n)

PySlice(s, start, end) ==
    LET n == TextLen(s)
        a == PyIndex(start, n)
        b == PyIndex(end, n)
    IN  IF a >= b THEN EmptyText
        ELSE [doc |-> s.doc, lo |-> s.lo + a, hi |-> s.lo + b]

\* -------------------------------------------------------------- chunking
Chunk(source, text) == [source |-> source, text |-> text]

\* a size check that lets one character too many through
TooLargeOffByOne(stripped) == TextLen(stripped) > MAX_TEXT_LENGTH + 1

\* the size check of chunk_text, made on the stripped text
TooLarge(stripped) == TextLen(stripped) > MAX_TEXT_LENGTH

\* chunk_text with the size check made on the text as given, before strip()
chunk_enter_unstripped(text, source, chunk_size, max_chunks) ==
    LET stripped == Strip(text)
    IN  [error |-> IF TextLen(stripped) # 0 /\ RawLen(text) > MAX_TEXT_LENGTH
                   THEN "ValueError" ELSE "none",
         returned |-> TextLen(stripped) = 0,
         text |-> stripped, source |-> source,
         chunk_size |-> chunk_size, max_chunks |-> max_chunks,
         start |-> 0, text_len |-> TextLen(stripped),
         chunks |-> <<>>, iterations |-> 0]

\* chunk_text up to its loop: the text is stripped, an empty text returns
\* [] at once, a text over the limit raises ValueError, and otherwise the
\* loop starts with chunks = [] and start = 0
chunk_enter(text, source, chunk_size, max_chunks) ==
    LET stripped == Strip(text)
    IN  [error |-> IF TextLen(stripped) # 0 /\ TooLarge(stripped)
                   THEN "ValueError" ELSE "none",
         returned |-> TextLen(stripped) = 0,
         text |-> stripped, source |-> source,
         chunk_size |-> chunk_size, max_chunks |-> max_chunks,
         start |-> 0, text_len |-> TextLen(stripped),
         chunks |-> <<>>, iterations |-> 0]

\* a loop test that lets one more chunk through than max_chunks
LoopTestOneMore(l) ==
    ~l.returned /\ l.error = "none"
    /\ l.start < l.text_len /\ Len(l.chunks) <= l.max_chunks

\* a loop test that makes one more pass when start has reached the end
LoopTestPastEnd(l) ==
    ~l.returned /\ l.error = "none"
    /\ l.start <= l.text_len /\ Len(l.chunks) < l.max_chunks

\* the loop test of chunk_text
LoopTest(l) ==
    ~l.returned /\ l.error = "none"
    /\ l.start < l.text_len /\ Len(l.chunks) < l.max_chunks

\* a loop body that starts the next window one character late
LoopBodyGap(l) ==
    LET end == Min(l.text_len, l.start + l.chunk_size)
    IN  [l EXCEPT !.chunks = Append(@, Chunk(l.source, PySlice(l.text, l.start, end))),
                  !.start = end + 1,
                  !.iterations = @ + 1]

\* one pass through the loop body of chunk_text
LoopBody(l) ==
    LET end == Min(l.text_len, l.start + l.chunk_size)
    IN  [l EXCEPT !.chunks = Append(@, Chunk(l.source, PySlice(l.text, l.start, end))),
                  !.start = end,
                  !.iterations = @ + 1]

NoLoop == chunk_enter(Text(0, 0, 0, 0), "", 0, 0)

\* ------------------------------------------------------- storage helpers
\* json.dumps(c, ensure_ascii=False) + "\n": one line of the store file
Dumps(c) == <<"json", c.source, c.text>>

\* json.loads(line)
Loads(line) == [source |-> line[2], text |-> line[3]]

\* what a torn or overwritten-with-a-hole line holds: not JSON
Garbage == <<"garbage", "", EmptyText>>

Readable(file) == \A i \in 1..Len(file.lines) : file.lines[i] # Garbage

\* load_chunks(): [] for a missing file, else every line parsed; a line that
\* is not JSON raises
load_chunks(file) ==
    IF ~file.exists THEN [error |-> "none", chunks |-> <<>>]
    ELSE IF ~Readable(file) THEN [error |-> "JSONDecodeError", chunks |-> <<>>]
    ELSE [error |-> "none",
          chunks |-> [i \in 1..Len(file.lines) |-> Loads(file.lines[i])]]

\* ------------------------------------------------------------ embeddings
\* embedder.encode(batch): one vector per text, in order
Encode(batch) == [i \in 1..Len(batch) |-> <<"vec", batch[i]>>]

\* _normalize(v): every row scaled to unit length
Normalize(v) == [i \in 1..Len(v) |-> <<"unit", v[i][2]>>]

RECURSIVE EncodeBatchesSkipping(_, _)
\* a batch loop that leaves out the text after each batch
EncodeBatchesSkipping(texts, i) ==
    IF i >= Len(texts) THEN <<>>
    ELSE Encode(SubSeq(texts, i + 1, Min(Len(texts), i + BATCH_SIZE)))
         \o EncodeBatchesSkipping(texts, i + BATCH_SIZE + 1)

RECURSIVE EncodeBatches(_, _)
\* the batch loop of build_index followed by np.vstack
EncodeBatches(texts, i) ==
    IF i >= Len(texts) THEN <<>>
    ELSE Encode(SubSeq(texts, i + 1, Min(Len(texts), i + BATCH_SIZE)))
         \o EncodeBatches(texts, i + BATCH_SIZE)

\* the rows build_index writes for `chunks`
IndexRows(chunks) ==
    Normalize(EncodeBatches([i \in 1..Len(chunks) |-> chunks[i].text], 0))

\* the row that is the embedding of chunk c
RowOf(c) == <<"unit", c.text>>

\* the inner product of the normalized query vector and an index row, as an
\* integer grade from -2 (cosine -1) to 2 (cosine 1)
Sim(q, row) == ((q + 2 * row[2].doc + (row[2].lo \div DEFAULT_CHUNK_SIZE)) % 5) - 2

\* the best of the positions in `left`: highest score, lowest position on a tie
Best(q, rows, left) ==
    CHOOSE i \in left : \A j \in left :
        \/ Sim(q, rows[i]) > Sim(q, rows[j])
        \/ Sim(q, rows[i]) = Sim(q, rows[j]) /\ i <= j

RECURSIVE TopK(_, _, _, _)
\* index.search(q, k): k (score, idx) pairs by descending score, idx zero-based,
\* padded with idx -1 when the index has fewer than k rows
TopK(q, rows, left, k) ==
    IF k <= 0 THEN <<>>
    ELSE IF left = {} THEN <<[score |-> -3, idx |-> -1]>> \o TopK(q, rows, left, k - 1)
    ELSE LET b == Best(q, rows, left)
         IN  <<[score |-> Sim(q, rows[b]), idx |-> b - 1]>>
             \o TopK(q, rows, left \ {b}, k - 1)

RECURSIVE HydrateUnchecked(_, _)
\* a result loop that skips negative positions only and reads a position
\* past the end of the store as an entry without source and text
HydrateUnchecked(found, chunks) ==
    IF found = <<>> THEN <<>>
    ELSE LET f == Head(found)
         IN  IF f.idx < 0
             THEN HydrateUnchecked(Tail(found), chunks)
             ELSE <<[score |-> f.score,
                     source |-> IF f.idx >= Len(chunks) THEN ""
                                ELSE chunks[f.idx + 1].source,
                     text |-> IF f.idx >= Len(chunks) THEN EmptyText
                              ELSE chunks[f.idx + 1].text]>>
                  \o HydrateUnchecked(Tail(found), chunks)

RECURSIVE Hydrate(_, _)
\* the result loop of search: positions outside the loaded store are skipped
Hydrate(found, chunks) ==
    IF found = <<>> THEN <<>>
    ELSE LET f == Head(found)
         IN  IF f.idx < 0 \/ f.idx >= Len(chunks)
             THEN Hydrate(Tail(found), chunks)
             ELSE <<[score |-> f.score,
                     source |-> chunks[f.idx + 1].source,
                     text |-> chunks[f.idx + 1].text]>>
                  \o Hydrate(Tail(found), chunks)

\* ----------------------------------------------------------------- state
VARIABLES
    chunksFile,   \* the file at CHUNKS_PATH: [exists, lines]
    indexFile,    \* the file at FAISS_INDEX_PATH: [state, rows]
    embedder,     \* the global _embedder: "None" or "loaded"
    modelLoads,   \* SentenceTransformer constructions in this process so far
    pc,           \* where each thread is in its call
    call,         \* each thread's call and its arguments
    frame,        \* each thread's locals: chunks, the loop of chunk_text, written, rows
                  \* (and, as history, the store file save_chunks opened)
    ret,          \* what each thread's call returned or raised
    pre,          \* history: both files as they were when the call started,
                  \* and the chunks chunk_text returned to it
    crashed,      \* history: the save_chunks calls the last crash interrupted
    nCalls,       \* calls started so far
    nCrashes,     \* crashes so far
    fn            \* a function applied on its own: its arguments and result

vars == <<chunksFile, indexFile, embedder, modelLoads, pc, call, frame, ret,
          pre, crashed, nCalls, nCrashes,
          fn>>

NoCall == [op |-> "none"]
NoFrame == [chunks |-> <<>>, loop |-> NoLoop, written |-> 0, rows |-> <<>>,
            old |-> [exists |-> FALSE, lines |-> <<>>]]
NoRet == [status |-> "none"]
Returned(count, results) == [status |-> "ok", count |-> count, results |-> results]
Raised(error) == [status |-> "error", error |-> error]

NoFile == [exists |-> FALSE, lines |-> <<>>]
NoIndex == [state |-> "absent", rows |-> <<>>]
NoHistory == [chunks |-> NoFile, index |-> NoIndex, new |-> <<>>]

Init ==
    /\ chunksFile = NoFile
    /\ indexFile = NoIndex
    /\ embedder = "None"
    /\ modelLoads = 0
    /\ pc = [t \in Threads |-> "idle"]
    /\ call = [t \in Threads |-> NoCall]
    /\ frame = [t \in Threads |-> NoFrame]
    /\ ret = [t \in Threads |-> NoRet]
    /\ pre = [t \in Threads |-> NoHistory]
    /\ crashed = {}
    /\ nCalls = 0
    /\ nCrashes = 0
    /\ fn = NoCall

\* the call of thread t ends by raising `error`; its locals are gone
Fail(t, error) ==
    /\ pc' = [pc EXCEPT ![t] = "failed"]
    /\ ret' = [ret EXCEPT ![t] = Raised(error)]
    /\ frame' = [frame EXCEPT ![t] = NoFrame]

\* the call of thread t returns; its locals are gone
Finish(t, count, results) ==
    /\ pc' = [pc EXCEPT ![t] = "done"]
    /\ ret' = [ret EXCEPT ![t] = Returned(count, results)]
    /\ frame' = [frame EXCEPT ![t] = NoFrame]

\* a write of `line` at line offset `at` of the store file: past the end it
\* leaves a hole, which no parser reads
WriteAt(lines, at, line) ==
    IF at < Len(lines) THEN [lines EXCEPT ![at + 1] = line]
    ELSE IF at = Len(lines) THEN Append(lines, line)
    ELSE lines \o [i \in 1..(at - Len(lines)) |-> Garbage] \o <<line>>

\* ----------------------------------------------------------- ingest_text
\* a thread enters ingest_text(text, source)
IngestCall(t, inputs, limit) ==
    /\ pc[t] = "idle"
    /\ nCalls < limit
    /\ \E inp \in inputs :
          call' = [call EXCEPT ![t] = [op |-> "ingest", text |-> inp.text,
                                       source |-> inp.source]]
    /\ pc' = [pc EXCEPT ![t] = "ingest_load"]
    /\ frame' = [frame EXCEPT ![t] = NoFrame]
    /\ ret' = [ret EXCEPT ![t] = NoRet]
    /\ pre' = [pre EXCEPT ![t] = [chunks |-> chunksFile, index |-> indexFile,
                                  new |-> <<>>]]
    /\ nCalls' = nCalls + 1
    /\ UNCHANGED <<chunksFile, indexFile, embedder, modelLoads, crashed, nCrashes, fn>>

\* chunks = load_chunks(), then chunk_text(text, source=source) up to its
\* loop; its ValueError is raised again as RuntimeError
IngestLoad(t) ==
    /\ pc[t] = "ingest_load"
    /\ LET ld == load_chunks(chunksFile)
           l == chunk_enter(call[t].text, call[t].source,
                            DEFAULT_CHUNK_SIZE, DEFAULT_MAX_CHUNKS)
       IN  IF ld.error # "none"
           THEN Fail(t, ld.error)
           ELSE IF l.error # "none"
           THEN Fail(t, "RuntimeError")
           ELSE /\ frame' = [frame EXCEPT ![t].chunks = ld.chunks, ![t].loop = l]
                /\ pc' = [pc EXCEPT ![t] = IF LoopTest(l) THEN "chunk_loop"
                                            ELSE "save_open"]
                /\ UNCHANGED ret
    /\ UNCHANGED <<chunksFile, indexFile, embedder, modelLoads, call, pre, crashed,
                   nCalls, nCrashes, fn>>

\* the loop of chunk_text followed by chunks = new_chunks in place of
\* chunks.extend(new_chunks)
ChunkStepAssign(t) ==
    /\ pc[t] = "chunk_loop"
    /\ LET l == LoopBody(frame[t].loop)
       IN  IF LoopTest(l)
           THEN /\ frame' = [frame EXCEPT ![t].loop = l]
                /\ UNCHANGED <<pc, pre>>
           ELSE /\ frame' = [frame EXCEPT ![t].loop = l,
                                           ![t].chunks = l.chunks]
                /\ pc' = [pc EXCEPT ![t] = "save_open"]
                /\ pre' = [pre EXCEPT ![t].new = l.chunks]
    /\ UNCHANGED <<chunksFile, indexFile, embedder, modelLoads, call, ret, crashed,
                   nCalls, nCrashes, fn>>

\* the last pass through the loop of chunk_text followed by an extend that
\* puts the new chunks before the loaded ones
ChunkStepPrepend(t) ==
    /\ pc[t] = "chunk_loop"
    /\ LET l == LoopBody(frame[t].loop)
       IN  IF LoopTest(l)
           THEN /\ frame' = [frame EXCEPT ![t].loop = l]
                /\ UNCHANGED <<pc, pre>>
           ELSE /\ frame' = [frame EXCEPT ![t].loop = l,
                                           ![t].chunks = l.chunks \o @]
                /\ pc' = [pc EXCEPT ![t] = "save_open"]
                /\ pre' = [pre EXCEPT ![t].new = l.chunks]
    /\ UNCHANGED <<chunksFile, indexFile, embedder, modelLoads, call, ret, crashed,
                   nCalls, nCrashes, fn>>

\* one pass through the loop of chunk_text; when the loop test fails after
\* it, chunk_text returns and chunks.extend(new_chunks) is done
ChunkStep(t) ==
    /\ pc[t] = "chunk_loop"
    /\ LET l == LoopBody(frame[t].loop)
       IN  IF LoopTest(l)
           THEN /\ frame' = [frame EXCEPT ![t].loop = l]
                /\ UNCHANGED <<pc, pre>>
           ELSE /\ frame' = [frame EXCEPT ![t].loop = l,
                                           ![t].chunks = @ \o l.chunks]
                /\ pc' = [pc EXCEPT ![t] = "save_open"]
                /\ pre' = [pre EXCEPT ![t].new = l.chunks]
    /\ UNCHANGED <<chunksFile, indexFile, embedder, modelLoads, call, ret, crashed,
                   nCalls, nCrashes, fn>>

\* save_chunks: open(CHUNKS_PATH, "w") truncates the file.  With nothing to
\* write the file is closed at once, build_index returns at its first test,
\* and ingest_text returns 0.
SaveOpen(t) ==
    /\ pc[t] = "save_open"
    /\ chunksFile' = [exists |-> TRUE, lines |-> <<>>]
    /\ IF frame[t].chunks = <<>>
       THEN Finish(t, Len(frame[t].loop.chunks), <<>>)
       ELSE /\ frame' = [frame EXCEPT ![t].old = chunksFile, ![t].written = 0]
            /\ pc' = [pc EXCEPT ![t] = "save_write"]
            /\ UNCHANGED ret
    /\ crashed' = {}
    /\ UNCHANGED <<indexFile, embedder, modelLoads, call, pre,
                   nCalls, nCrashes, fn>>

\* save_chunks: open raises (the storage cannot be written)
SaveOpenFail(t) ==
    /\ pc[t] = "save_open"
    /\ Fail(t, "OSError")
    /\ UNCHANGED <<chunksFile, indexFile, embedder, modelLoads, call, pre, crashed, nCalls, nCrashes, fn>>

\* save_chunks: one f.write, at this writer's own offset.  After the last
\* one the file is closed and build_index starts.
SaveWrite(t) ==
    /\ pc[t] = "save_write"
    /\ LET k == frame[t].written
       IN  /\ chunksFile' = [chunksFile EXCEPT !.lines =
                                 WriteAt(@, k, Dumps(frame[t].chunks[k + 1]))]
           /\ frame' = [frame EXCEPT ![t].written = k + 1]
           /\ pc' = [pc EXCEPT ![t] = IF k + 1 = Len(frame[t].chunks)
                                       THEN "emb_check" ELSE "save_write"]
    /\ UNCHANGED <<indexFile, embedder, modelLoads, call, ret, pre,
                   crashed, nCalls, nCrashes, fn>>

\* save_chunks: a write raises; what was written stays
SaveWriteFail(t) ==
    /\ pc[t] = "save_write"
    /\ Fail(t, "OSError")
    /\ UNCHANGED <<chunksFile, indexFile, embedder, modelLoads, call, pre, crashed, nCalls, nCrashes, fn>>

\* ---------------------------------------------------------- _get_embedder
\* where a thread goes on once it holds the embedder
AfterEmbedder(t) == IF call[t].op = "ingest" THEN "encode" ELSE "query"

\* the test `if _embedder is None`
EmbCheck(t) ==
    /\ pc[t] = "emb_check"
    /\ pc' = [pc EXCEPT ![t] = IF embedder = "None" THEN "emb_load"
                                ELSE AfterEmbedder(t)]
    /\ UNCHANGED <<chunksFile, indexFile, embedder, modelLoads, call, frame,
                   ret, pre, crashed, nCalls, nCrashes, fn>>

\* _embedder = SentenceTransformer(...): the model is loaded and assigned
EmbLoad(t) ==
    /\ pc[t] = "emb_load"
    /\ modelLoads' = modelLoads + 1
    /\ embedder' = "loaded"
    /\ pc' = [pc EXCEPT ![t] = AfterEmbedder(t)]
    /\ UNCHANGED <<chunksFile, indexFile, call, frame, ret, pre,
                   crashed, nCalls, nCrashes, fn>>

\* SentenceTransformer(...) raises: the model cannot be loaded
EmbLoadFail(t) ==
    /\ pc[t] = "emb_load"
    /\ Fail(t, "ModelUnavailable")
    /\ UNCHANGED <<chunksFile, indexFile, embedder, modelLoads, call, pre, crashed, nCalls, nCrashes, fn>>

\* ------------------------------------------------------------ build_index
\* the batch loop, np.vstack and _normalize
EncodeChunks(t) ==
    /\ pc[t] = "encode"
    /\ frame' = [frame EXCEPT ![t].rows = IndexRows(frame[t].chunks)]
    /\ pc' = [pc EXCEPT ![t] = "index_open"]
    /\ UNCHANGED <<chunksFile, indexFile, embedder, modelLoads, call, ret,
                   pre, crashed, nCalls, nCrashes, fn>>

\* embedder.encode raises, in build_index or in search
EncodeFail(t) ==
    /\ pc[t] \in {"encode", "query"}
    /\ Fail(t, "ModelUnavailable")
    /\ UNCHANGED <<chunksFile, indexFile, embedder, modelLoads, call, pre, crashed, nCalls, nCrashes, fn>>

\* faiss.write_index opens the index file for writing: until the rows are
\* written the file holds no readable index
IndexOpen(t) ==
    /\ pc[t] = "index_open"
    /\ indexFile' = [state |-> "corrupt", rows |-> <<>>]
    /\ pc' = [pc EXCEPT ![t] = "index_write"]
    /\ UNCHANGED <<chunksFile, embedder, modelLoads, call, frame, ret, pre, crashed, nCalls, nCrashes, fn>>

\* faiss.write_index writes the rows; build_index returns and ingest_text
\* returns len(new_chunks)
IndexWrite(t) ==
    /\ pc[t] = "index_write"
    /\ indexFile' = [state |-> "ok", rows |-> frame[t].rows]
    /\ Finish(t, Len(frame[t].loop.chunks), <<>>)
    /\ UNCHANGED <<chunksFile, embedder, modelLoads, call, pre, crashed, nCalls, nCrashes, fn>>

\* faiss.write_index raises part-way
IndexWriteFail(t) ==
    /\ pc[t] = "index_write"
    /\ Fail(t, "OSError")
    /\ UNCHANGED <<chunksFile, indexFile, embedder, modelLoads, call, pre, crashed, nCalls, nCrashes, fn>>

\* ----------------------------------------------------------------- search
\* a thread enters search(query, top_k)
SearchCall(t, queries, topks, limit) ==
    /\ pc[t] = "idle"
    /\ nCalls < limit
    /\ \E q \in queries, k \in topks :
          call' = [call EXCEPT ![t] = [op |-> "search", query |-> q, top_k |-> k]]
    /\ pc' = [pc EXCEPT ![t] = "search_load"]
    /\ frame' = [frame EXCEPT ![t] = NoFrame]
    /\ ret' = [ret EXCEPT ![t] = NoRet]
    /\ pre' = [pre EXCEPT ![t] = [chunks |-> chunksFile, index |-> indexFile,
                                  new |-> <<>>]]
    /\ nCalls' = nCalls + 1
    /\ UNCHANGED <<chunksFile, indexFile, embedder, modelLoads, crashed, nCrashes, fn>>

\* a load that creates the store file when there is none
SearchLoadCreating(t) ==
    /\ pc[t] = "search_load"
    /\ LET ld == load_chunks(chunksFile)
       IN  IF ld.error # "none"
           THEN Fail(t, ld.error)
           ELSE IF ld.chunks = <<>>
           THEN Finish(t, 0, <<>>)
           ELSE /\ frame' = [frame EXCEPT ![t].chunks = ld.chunks]
                /\ pc' = [pc EXCEPT ![t] = "search_exists"]
                /\ UNCHANGED ret
    /\ chunksFile' = [chunksFile EXCEPT !.exists = TRUE]
    /\ UNCHANGED <<indexFile, embedder, modelLoads, call, pre, crashed, nCalls, nCrashes, fn>>

\* chunks = load_chunks(), and the test `not chunks`
SearchLoad(t) ==
    /\ pc[t] = "search_load"
    /\ LET ld == load_chunks(chunksFile)
       IN  IF ld.error # "none"
           THEN Fail(t, ld.error)
           ELSE IF ld.chunks = <<>>
           THEN Finish(t, 0, <<>>)
           ELSE /\ frame' = [frame EXCEPT ![t].chunks = ld.chunks]
                /\ pc' = [pc EXCEPT ![t] = "search_exists"]
                /\ UNCHANGED ret
    /\ UNCHANGED <<chunksFile, indexFile, embedder, modelLoads, call, pre, crashed, nCalls, nCrashes, fn>>

\* the test `not os.path.exists(FAISS_INDEX_PATH)`
SearchExists(t) ==
    /\ pc[t] = "search_exists"
    /\ IF indexFile.state = "absent"
       THEN Finish(t, 0, <<>>)
       ELSE pc' = [pc EXCEPT ![t] = "search_read"] /\ UNCHANGED <<ret, frame>>
    /\ UNCHANGED <<chunksFile, indexFile, embedder, modelLoads, call, pre, crashed, nCalls, nCrashes, fn>>

\* index = faiss.read_index(FAISS_INDEX_PATH): raises on a file that holds
\* no readable index
read_index(t) ==
    /\ pc[t] = "search_read"
    /\ IF indexFile.state = "ok"
       THEN /\ frame' = [frame EXCEPT ![t].rows = indexFile.rows]
            /\ pc' = [pc EXCEPT ![t] = "emb_check"]
            /\ UNCHANGED ret
       ELSE Fail(t, "IndexReadError")
    /\ UNCHANGED <<chunksFile, indexFile, embedder, modelLoads, call, pre, crashed, nCalls, nCrashes, fn>>

\* the query is encoded and normalized, index.search is run and the result
\* loop hydrates the positions found; faiss asserts k > 0
SearchQuery(t) ==
    /\ pc[t] = "query"
    /\ IF call[t].top_k <= 0
       THEN Fail(t, "AssertionError")
       ELSE LET rows == frame[t].rows
                found == TopK(call[t].query, rows, 1..Len(rows), call[t].top_k)
                results == Hydrate(found, frame[t].chunks)
            IN  Finish(t, Len(results), results)
    /\ UNCHANGED <<chunksFile, indexFile, embedder, modelLoads, call, pre, crashed, nCalls, nCrashes, fn>>

\* ------------------------------------------------------ process and calls
\* the caller takes the result; the thread is free for the next request
Return(t) ==
    /\ pc[t] \in {"done", "failed"}
    /\ pc' = [pc EXCEPT ![t] = "idle"]
    /\ call' = [call EXCEPT ![t] = NoCall]
    /\ frame' = [frame EXCEPT ![t] = NoFrame]
    /\ ret' = [ret EXCEPT ![t] = NoRet]
    /\ pre' = [pre EXCEPT ![t] = NoHistory]
    /\ UNCHANGED <<chunksFile, indexFile, embedder, modelLoads, crashed,
                   nCalls, nCrashes, fn>>

\* the threads a crash finds inside save_chunks, between open and close
Saving == {t \in Threads : pc[t] = "save_write"}

\* The process dies and is started again: every call is gone, the embedder
\* is unloaded, the files stay as they are.  A writer caught inside
\* save_chunks may leave a partly written line at its offset.
Crash ==
    /\ nCrashes < MaxCrashes
    /\ \E t \in Threads : pc[t] # "idle"
    /\ \/ UNCHANGED chunksFile
       \/ \E t \in Saving :
             chunksFile' = [chunksFile EXCEPT !.lines =
                               WriteAt(@, frame[t].written, Garbage)]
    /\ crashed' = {[old |-> frame[t].old, new |-> frame[t].chunks] : t \in Saving}
    /\ pc' = [t \in Threads |-> "idle"]
    /\ call' = [t \in Threads |-> NoCall]
    /\ frame' = [t \in Threads |-> NoFrame]
    /\ ret' = [t \in Threads |-> NoRet]
    /\ pre' = [t \in Threads |-> NoHistory]
    /\ embedder' = "None"
    /\ modelLoads' = 0
    /\ nCrashes' = nCrashes + 1
    /\ UNCHANGED <<indexFile, nCalls, fn>>

\* ------------------------------------------------------------ the inputs
\* ingest_text arguments: a short document, and a document of two chunks
\* with whitespace around it
Doc1 == [text |-> Text(1, 0, 5, 0), source |-> "bio101"]
Doc2 == [text |-> Text(2, 1, DEFAULT_CHUNK_SIZE + 1, 1), source |-> "notes"]
\* a text of whitespace only
Blank == [text |-> Text(3, 2, 0, 0), source |-> "manual"]
\* a text over the size limit
Oversize == [text |-> Text(4, 0, MAX_TEXT_LENGTH + 1, 0), source |-> "book"]
\* texts longer than the size limit whose stripped body is not
Padded == [text |-> Text(5, 1, MAX_TEXT_LENGTH, 0), source |-> "scan"]
LongBlank == [text |-> Text(6, MAX_TEXT_LENGTH + 1, 0, 0), source |-> "scan"]

Queries == {1, 2}
\* result counts asked for: the configured one, one, and none
TopKs == {0, 1, TOP_K}

\* the steps of a call in progress
Work(t) ==
    \/ IngestLoad(t)
    \/ ChunkStep(t)
    \/ SaveOpen(t)
    \/ SaveWrite(t)
    \/ EmbCheck(t)
    \/ EmbLoad(t)
    \/ EncodeChunks(t)
    \/ IndexOpen(t)
    \/ IndexWrite(t)
    \/ SearchLoad(t)
    \/ SearchExists(t)
    \/ read_index(t)
    \/ SearchQuery(t)
    \/ Return(t)

\* the steps at which the environment makes a call fail
Fault(t) ==
    \/ SaveOpenFail(t)
    \/ SaveWriteFail(t)
    \/ EmbLoadFail(t)
    \/ EncodeFail(t)
    \/ IndexWriteFail(t)

\* ---------------------------------------------------- the specifications
\* Spec: the request-handling threads run calls concurrently.
Next ==
    \/ \E t \in Threads :
          \/ IngestCall(t, {Doc1, Doc2, Blank}, MaxCalls)
          \/ SearchCall(t, {1}, TopKs, MaxCalls)
          \/ Work(t)
          \/ Fault(t)
    \/ Crash

Spec == Init /\ [][Next]_vars

\* SpecSerial: one ingest_text at a time beside any searches, each file
\* written in one step: save_chunks from open to close, and
\* faiss.write_index from open to close.
\* a thread enters ingest_text while no other thread is inside it
IngestCallSerial(t) ==
    /\ \A u \in Threads \ {t} : call[u].op # "ingest"
    /\ IngestCall(t, {Doc1, Doc2, Blank}, MaxSerialCalls)

\* save_chunks as one step: the file holds the lines of `chunks`; with
\* nothing to write build_index returns at once and ingest_text returns 0
SaveAtomic(t) ==
    /\ pc[t] = "save_open"
    /\ chunksFile' = [exists |-> TRUE,
                      lines |-> [i \in 1..Len(frame[t].chunks) |->
                                    Dumps(frame[t].chunks[i])]]
    /\ IF frame[t].chunks = <<>>
       THEN Finish(t, Len(frame[t].loop.chunks), <<>>)
       ELSE /\ frame' = [frame EXCEPT ![t].old = chunksFile,
                                       ![t].written = Len(frame[t].chunks)]
            /\ pc' = [pc EXCEPT ![t] = "emb_check"]
            /\ UNCHANGED ret
    /\ crashed' = {}
    /\ UNCHANGED <<indexFile, embedder, modelLoads, call, pre,
                   nCalls, nCrashes, fn>>

\* faiss.write_index as one step; build_index returns and ingest_text
\* returns len(new_chunks)
IndexWriteAtomic(t) ==
    /\ pc[t] = "index_open"
    /\ indexFile' = [state |-> "ok", rows |-> frame[t].rows]
    /\ Finish(t, Len(frame[t].loop.chunks), <<>>)
    /\ UNCHANGED <<chunksFile, embedder, modelLoads, call, pre, crashed,
                   nCalls, nCrashes, fn>>

NextSerial ==
    \/ \E t \in Threads :
          \/ IngestCallSerial(t)
          \/ SearchCall(t, {1}, TopKs, MaxSerialCalls)
          \/ IngestLoad(t)
          \/ ChunkStep(t)
          \/ SaveAtomic(t)
          \/ EmbCheck(t)
          \/ EmbLoad(t)
          \/ EncodeChunks(t)
          \/ IndexWriteAtomic(t)
          \/ SearchLoad(t)
          \/ SearchExists(t)
          \/ read_index(t)
          \/ SearchQuery(t)
          \/ Return(t)
          \/ EmbLoadFail(t)
          \/ EncodeFail(t)
    \/ Crash

SpecSerial == Init /\ [][NextSerial]_vars

\* SpecSeq: the calls are made one at a time, by one thread.
NextSeq ==
    \/ IngestCall("t1", {Doc1, Doc2, Blank, Oversize}, MaxSeqCalls)
    \/ SearchCall("t1", Queries, TopKs, MaxSeqCalls)
    \/ Work("t1")
    \/ Fault("t1")
    \/ Crash

SpecSeq == Init /\ [][NextSeq]_vars

\* SpecBig: ingest_text on texts at the size limit, one call at a time, from
\* persisted states earlier calls leave behind: nothing, a store of one
\* chunk with its index, that store with a line torn by a crash, and that
\* index beside a store a failed save has emptied.
StoreOfDoc1 ==
    LoopBody(chunk_enter(Doc1.text, Doc1.source, DEFAULT_CHUNK_SIZE, DEFAULT_MAX_CHUNKS)).chunks

\* the two chunks chunk_text returns for Doc2 with the defaults
StoreOfDoc2 ==
    LoopBody(LoopBody(chunk_enter(Doc2.text, Doc2.source,
                                  DEFAULT_CHUNK_SIZE, DEFAULT_MAX_CHUNKS))).chunks

BigStarts ==
    { [chunks |-> NoFile, index |-> NoIndex],
      [chunks |-> [exists |-> TRUE, lines |-> <<Dumps(StoreOfDoc1[1])>>],
       index |-> [state |-> "ok", rows |-> IndexRows(StoreOfDoc1)]],
      [chunks |-> [exists |-> TRUE, lines |-> <<Dumps(StoreOfDoc1[1]), Garbage>>],
       index |-> [state |-> "ok", rows |-> IndexRows(StoreOfDoc1)]],
      [chunks |-> [exists |-> TRUE, lines |-> <<>>],
       index |-> [state |-> "ok", rows |-> IndexRows(StoreOfDoc1)]] }

InitBig ==
    /\ \E start \in BigStarts :
          /\ chunksFile = start.chunks
          /\ indexFile = start.index
    /\ embedder = "None"
    /\ modelLoads = 0
    /\ pc = [t \in Threads |-> "idle"]
    /\ call = [t \in Threads |-> NoCall]
    /\ frame = [t \in Threads |-> NoFrame]
    /\ ret = [t \in Threads |-> NoRet]
    /\ pre = [t \in Threads |-> NoHistory]
    /\ crashed = {}
    /\ nCalls = 0
    /\ nCrashes = 0
    /\ fn = NoCall

NextBig ==
    \/ IngestCall("t1", {Doc1, Oversize, Padded, LongBlank}, MaxBigCalls)
    \/ IngestLoad("t1")
    \/ ChunkStep("t1")
    \/ SaveOpen("t1")
    \/ SaveWrite("t1")
    \/ EmbCheck("t1")
    \/ EmbLoad("t1")
    \/ EncodeChunks("t1")
    \/ IndexOpen("t1")
    \/ IndexWrite("t1")
    \/ Return("t1")

SpecBig == InitBig /\ [][NextBig]_vars

\* SpecChunk: chunk_text applied to texts around the chunk size and around
\* the size limit.
ChunkBodies == {0, 1, 2, DEFAULT_MAX_CHUNKS, DEFAULT_MAX_CHUNKS + 1,
                DEFAULT_CHUNK_SIZE - 1, DEFAULT_CHUNK_SIZE, DEFAULT_CHUNK_SIZE + 1,
                2 * DEFAULT_CHUNK_SIZE, MAX_TEXT_LENGTH - 1, MAX_TEXT_LENGTH,
                MAX_TEXT_LENGTH + 1, MAX_TEXT_LENGTH + 2}
\* chunk_size and max_chunks are plain integers: negative ones and zero are
\* given too
ChunkSizes == {-1, 0, 1, 2, DEFAULT_CHUNK_SIZE}
ChunkLimits == {-1, 0, 1, 3, DEFAULT_MAX_CHUNKS}

\* chunk_text is entered
ChunkCall ==
    /\ fn = NoCall
    /\ \E body \in ChunkBodies, lead \in 0..MaxPad, trail \in 0..MaxPad,
          source \in {"bio101", "notes"}, size \in ChunkSizes, limit \in ChunkLimits :
          LET text == Text(1, lead, body, trail)
          IN  fn' = [op |-> "chunk_text", arg |-> text, running |-> TRUE,
                     loop |-> chunk_enter(text, source, size, limit)]
    /\ UNCHANGED <<chunksFile, indexFile, embedder, modelLoads, pc, call, frame,
                   ret, pre, crashed, nCalls, nCrashes>>

\* one pass through its loop
ChunkIterate ==
    /\ fn # NoCall
    /\ fn.running
    /\ LoopTest(fn.loop)
    /\ fn' = [fn EXCEPT !.loop = LoopBody(@)]
    /\ UNCHANGED <<chunksFile, indexFile, embedder, modelLoads, pc, call, frame,
                   ret, pre, crashed, nCalls, nCrashes>>

\* it returns its chunks or raises
ChunkExit ==
    /\ fn # NoCall
    /\ fn.running
    /\ ~LoopTest(fn.loop)
    /\ fn' = [fn EXCEPT !.running = FALSE]
    /\ UNCHANGED <<chunksFile, indexFile, embedder, modelLoads, pc, call, frame,
                   ret, pre, crashed, nCalls, nCrashes>>

\* the caller takes the result
ChunkReturn ==
    /\ fn # NoCall
    /\ ~fn.running
    /\ fn' = NoCall
    /\ UNCHANGED <<chunksFile, indexFile, embedder, modelLoads, pc, call, frame,
                   ret, pre, crashed, nCalls, nCrashes>>

NextChunk == ChunkCall \/ ChunkIterate \/ ChunkExit \/ ChunkReturn

SpecChunk == Init /\ [][NextChunk]_vars

\* SpecChunkFair: the same, the function being run to its end once entered
SpecChunkFair == SpecChunk /\ WF_vars(ChunkIterate) /\ WF_vars(ChunkExit)

\* -------------------------------------------------------- _format_context
\* f"{score:.3f}" of a score, scores being the grades of Sim
FormatScore(g) ==
    CASE g = -2 -> "-1.000"
      [] g = -1 -> "-0.500"
      [] g = 0 -> "0.000"
      [] g = 1 -> "0.500"
      [] OTHER -> "1.000"

\* the block of hit h at place i: a header line, and the text with a line end
Block(i, h) ==
    [head |-> "[" \o ToString(i) \o "] Source: " \o h.source
              \o " (score=" \o FormatScore(h.score) \o ")\n",
     text |-> h.text,
     tail |-> "\n"]

\* len(block)
BlockLen(b) == Len(b.head) + TextLen(b.text) + Len(b.tail)

RECURSIVE SumLen(_)
SumLen(blocks) ==
    IF blocks = <<>> THEN 0 ELSE BlockLen(Head(blocks)) + SumLen(Tail(blocks))

\* the string returned for no hits
NoContext == [blocks |-> <<>>, seps |-> 0, len |-> Len("No retrieved context.")]

\* "\n".join(lines): the blocks with one separator between neighbours
JoinLines(lines) ==
    [blocks |-> lines,
     seps |-> Max(0, Len(lines) - 1),
     len |-> SumLen(lines) + Len("\n") * Max(0, Len(lines) - 1)]

\* _format_context up to its loop: no hits returns at once
format_enter(hits, max_chars) ==
    [hits |-> hits, max_chars |-> max_chars,
     returned |-> hits = <<>>, broke |-> FALSE,
     i |-> 0, total |-> 0, lines |-> <<>>]

\* the loop goes on while hits are left and no break was made
FormatLoopTest(f) == ~f.returned /\ ~f.broke /\ f.i < Len(f.hits)

\* one pass through the loop of _format_context
FormatLoopBody(f) ==
    LET block == Block(f.i + 1, f.hits[f.i + 1])
        total == f.total + BlockLen(block)
    IN  IF total > f.max_chars
        THEN [f EXCEPT !.i = @ + 1, !.total = total, !.broke = TRUE]
        ELSE [f EXCEPT !.i = @ + 1, !.total = total, !.lines = Append(@, block)]

\* what _format_context returns
FormatResult(f) == IF f.hits = <<>> THEN NoContext ELSE JoinLines(f.lines)

\* hits as search returns them: a short chunk and the two chunks of a longer
\* document, with a positive and a negative score
HitChunks == StoreOfDoc1 \o StoreOfDoc2
Hits ==
    {[score |-> g, source |-> HitChunks[c].source, text |-> HitChunks[c].text] :
        g \in {-1, 2}, c \in 1..Len(HitChunks)}

HitLists == UNION {[1..n -> Hits] : n \in 0..MaxHits}

\* budgets: none, the default, and around the length of two short blocks
TwoShortBlocks ==
    2 * BlockLen(Block(1, [score |-> 2, source |-> StoreOfDoc1[1].source,
                           text |-> StoreOfDoc1[1].text]))
FormatBudgets ==
    {0, TwoShortBlocks - 1, TwoShortBlocks, TwoShortBlocks + 1, DEFAULT_MAX_CHARS}

\* _format_context is entered
FormatCall ==
    /\ fn = NoCall
    /\ \E hits \in HitLists, max_chars \in FormatBudgets :
          fn' = [op |-> "_format_context", running |-> TRUE,
                 loop |-> format_enter(hits, max_chars), result |-> JoinLines(<<>>)]
    /\ UNCHANGED <<chunksFile, indexFile, embedder, modelLoads, pc, call, frame,
                   ret, pre, crashed, nCalls, nCrashes>>

\* one pass through its loop
FormatIterate ==
    /\ fn # NoCall
    /\ fn.running
    /\ FormatLoopTest(fn.loop)
    /\ fn' = [fn EXCEPT !.loop = FormatLoopBody(@)]
    /\ UNCHANGED <<chunksFile, indexFile, embedder, modelLoads, pc, call, frame,
                   ret, pre, crashed, nCalls, nCrashes>>

\* it returns the placeholder or the joined blocks
FormatExit ==
    /\ fn # NoCall
    /\ fn.running
    /\ ~FormatLoopTest(fn.loop)
    /\ fn' = [fn EXCEPT !.running = FALSE, !.result = FormatResult(fn.loop)]
    /\ UNCHANGED <<chunksFile, indexFile, embedder, modelLoads, pc, call, frame,
                   ret, pre, crashed, nCalls, nCrashes>>

\* the caller takes the result
FormatReturn ==
    /\ fn # NoCall
    /\ ~fn.running
    /\ fn' = NoCall
    /\ UNCHANGED <<chunksFile, indexFile, embedder, modelLoads, pc, call, frame,
                   ret, pre, crashed, nCalls, nCrashes>>

NextFormat == FormatCall \/ FormatIterate \/ FormatExit \/ FormatReturn

\* SpecFormat: _format_context applied to up to MaxHits hits
SpecFormat == Init /\ [][NextFormat]_vars

\* ------------------------------------------------------------- properties
Range(f) == {f[i] : i \in DOMAIN f}

\* rows of the persisted index, an absent or unreadable one counting as none
IndexSize == IF indexFile.state = "ok" THEN Len(indexFile.rows) ELSE 0

\* chunks in the persisted store
StoreSize == Len(chunksFile.lines)

IngestDone(t) == call[t].op = "ingest" /\ pc[t] = "done"
IngestFailed(t) == call[t].op = "ingest" /\ pc[t] = "failed"

\* C1: right after every ingest_text call that returns, calls being made one
\* at a time and earlier ones possibly having failed, the persisted index
\* has as many rows as the persisted store has chunks.
C1_IndexSizeIsStoreSizeAfterIngest ==
    \A t \in Threads : IngestDone(t) => IndexSize = StoreSize

\* C2: in every state with a readable persisted index, row i of the index
\* is the embedding of entry i of the persisted store, for every row i.
C2_IndexRowIsStoreEntry ==
    indexFile.state = "ok" =>
        \A i \in 1..Len(indexFile.rows) :
            /\ i <= Len(chunksFile.lines)
            /\ chunksFile.lines[i] # Garbage
            /\ indexFile.rows[i] = RowOf(Loads(chunksFile.lines[i]))

\* C3: after an ingest_text call that returns and overlapped no other
\* ingest, the persisted store is the store from before the call followed
\* by the chunks chunk_text produced, in order.
C3_StoreIsAppendOnly ==
    \A t \in Threads : IngestDone(t) =>
        /\ load_chunks(chunksFile).error = "none"
        /\ load_chunks(chunksFile).chunks
              = load_chunks(pre[t].chunks).chunks \o pre[t].new

C3_Witness ==
    \E t \in Threads :
        /\ IngestDone(t)
        /\ Len(pre[t].chunks.lines) >= 1
        /\ Len(pre[t].new) = 2

\* C4: when two ingest_text calls have both returned, the persisted store
\* holds every chunk that was there before either and the new chunks of both.
C4_NoChunkLostByTwoIngests ==
    (\A t \in Threads : IngestDone(t)) =>
        \A t \in Threads :
            /\ \A c \in Range(pre[t].new) : Dumps(c) \in Range(chunksFile.lines)
            /\ Range(pre[t].chunks.lines) \subseteq Range(chunksFile.lines)

\* C5: an ingest_text call that fails leaves the persisted store and the
\* persisted index as they were before the call.
C5_FailedIngestChangesNothing ==
    \A t \in Threads : IngestFailed(t) =>
        /\ chunksFile = pre[t].chunks
        /\ indexFile = pre[t].index

\* C6 as claimed: an ingest_text call whose text is longer than the size
\* limit fails with the size-limit error and leaves store and index unchanged.
C6_LongTextIsRejected ==
    \A t \in Threads :
        (call[t].op = "ingest" /\ pc[t] # "ingest_load"
         /\ RawLen(call[t].text) > MAX_TEXT_LENGTH) =>
            /\ pc[t] = "failed"
            /\ ret[t] = Raised("RuntimeError")
            /\ chunksFile = pre[t].chunks
            /\ indexFile = pre[t].index

\* C6 as amended: an ingest_text call whose text is longer than the size
\* limit once its surrounding whitespace is stripped fails, with the
\* size-limit error when the persisted store can be read and with the
\* store's read error otherwise; store and index are left unchanged and no
\* chunk of the document is stored.
C6_LongStrippedTextIsRejected ==
    \A t \in Threads :
        (call[t].op = "ingest" /\ pc[t] # "ingest_load"
         /\ call[t].text.body > MAX_TEXT_LENGTH) =>
            /\ pc[t] = "failed"
            /\ ret[t] = Raised(IF load_chunks(pre[t].chunks).error = "none"
                               THEN "RuntimeError"
                               ELSE load_chunks(pre[t].chunks).error)
            /\ chunksFile = pre[t].chunks
            /\ indexFile = pre[t].index
            /\ \A line \in Range(chunksFile.lines) : line[3].doc # call[t].text.doc

C6_Witness ==
    \E t \in Threads :
        /\ call[t].op = "ingest" /\ pc[t] = "failed"
        /\ call[t].text.body > MAX_TEXT_LENGTH
        /\ ret[t] = Raised("RuntimeError")
        /\ Len(chunksFile.lines) >= 1
        /\ indexFile.state = "ok"

\* C7 as claimed: chunk_text raises the size-limit error, and returns no
\* chunk, for every text longer than the size limit.
C7_LongTextRaises ==
    (fn # NoCall /\ RawLen(fn.arg) > MAX_TEXT_LENGTH) =>
        /\ fn.loop.error = "ValueError"
        /\ fn.loop.chunks = <<>>

\* C7 as amended: chunk_text raises the size-limit error for every text
\* longer than the size limit once its surrounding whitespace is stripped,
\* and for no other text; when it raises it has made no pass through its
\* loop and produced no chunk.
C7_LongStrippedTextRaises ==
    fn # NoCall =>
        /\ fn.loop.error = "ValueError" <=> fn.arg.body > MAX_TEXT_LENGTH
        /\ fn.loop.error = "ValueError" =>
              fn.loop.chunks = <<>> /\ fn.loop.iterations = 0 /\ ~LoopTest(fn.loop)

C7_Witness ==
    /\ fn # NoCall
    /\ ~fn.running
    /\ fn.arg.body = MAX_TEXT_LENGTH + 1
    /\ fn.loop.error = "ValueError"

\* C8: the embedding model is loaded at most once in a process.
C8_ModelLoadedAtMostOnce == modelLoads <= 1

\* C9: after a crash inside save_chunks, load_chunks returns the complete
\* sequence from before the save or the complete sequence being saved.
C9_SaveIsAtomicUnderCrash ==
    \A r \in crashed :
        /\ load_chunks(chunksFile).error = "none"
        /\ load_chunks(chunksFile).chunks \in {load_chunks(r.old).chunks, r.new}

\* C10: a search that finds the index file present but unreadable returns
\* an empty result sequence instead of failing.
C10_UnreadableIndexGivesNoResults ==
    \A t \in Threads :
        (call[t].op = "search" /\ pc[t] \in {"done", "failed"}
         /\ indexFile.state = "corrupt"
         /\ load_chunks(chunksFile).error = "none"
         /\ load_chunks(chunksFile).chunks # <<>>) =>
            ret[t] = Returned(0, <<>>)

\* a search whose call found the store file missing or without a line, or
\* no index file
SearchOfNothing(t) ==
    /\ call[t].op = "search"
    /\ \/ ~pre[t].chunks.exists
       \/ pre[t].chunks.lines = <<>>
       \/ pre[t].index.state = "absent"

\* where a search is once it has passed its test `not chunks or not exists`
PastEmptyTest == {"search_read", "emb_check", "emb_load", "query"}

\* C11: a search called with the store missing or empty, or with no index
\* file, raises nothing, never gets past its first test to the embedder, and
\* returns an empty sequence.
C11_SearchOfNothingIsEmpty ==
    \A t \in Threads : SearchOfNothing(t) =>
        /\ pc[t] \notin PastEmptyTest \cup {"failed"}
        /\ pc[t] = "done" => ret[t] = Returned(0, <<>>)

\* C11 where the store can be read: the same, for a store file that parses
C11_SearchOfReadableNothingIsEmpty ==
    \A t \in Threads : (SearchOfNothing(t) /\ Readable(pre[t].chunks)) =>
        /\ pc[t] \notin PastEmptyTest \cup {"failed"}
        /\ pc[t] = "done" => ret[t] = Returned(0, <<>>)

\* the store a one-at-a-time search loaded, and what its index lookup gave
LoadedStore(t) == load_chunks(pre[t].chunks).chunks
Found(t) ==
    TopK(call[t].query, pre[t].index.rows, 1..Len(pre[t].index.rows), call[t].top_k)

\* a search that returned after having read the index
SearchAnswered(t) ==
    /\ call[t].op = "search" /\ pc[t] = "done"
    /\ LoadedStore(t) # <<>>
    /\ pre[t].index.state = "ok"

\* the positions the lookup gave that lie inside the loaded store, in order
Kept(t) ==
    SelectSeq(Found(t), LAMBDA f : f.idx >= 0 /\ f.idx < Len(LoadedStore(t)))

\* C12: whatever the index and the store hold, a search never fails on a
\* position the index gives: the positions that are negative or not below
\* the length of the loaded store are skipped, and the results are, in
\* order, the remaining positions with the source and text of the loaded
\* store's entry at each.
C12_StalePositionsAreSkipped ==
    \A t \in Threads :
        /\ (call[t].op = "search" /\ pc[t] = "failed") =>
              ret[t].error # "IndexError"
        /\ SearchAnswered(t) =>
              /\ Len(ret[t].results) = Len(Kept(t))
              /\ \A j \in 1..Len(Kept(t)) :
                    LET at == Kept(t)[j].idx + 1
                    IN  /\ ret[t].results[j].score = Kept(t)[j].score
                        /\ ret[t].results[j].source = LoadedStore(t)[at].source
                        /\ ret[t].results[j].text = LoadedStore(t)[at].text

\* a search answered from an index with more rows than the loaded store has
\* entries: a stale position and padding were skipped, an entry was kept
C12_Witness ==
    \E t \in Threads :
        /\ SearchAnswered(t)
        /\ Len(pre[t].index.rows) > Len(LoadedStore(t))
        /\ \E j \in 1..Len(Found(t)) : Found(t)[j].idx >= Len(LoadedStore(t))
        /\ \E j \in 1..Len(Found(t)) : Found(t)[j].idx < 0
        /\ ret[t].results # <<>>

\* the index and the store a one-at-a-time search found agree: as many rows
\* as entries, row i the embedding of entry i
Consistent(t) ==
    /\ pre[t].index.state = "ok"
    /\ load_chunks(pre[t].chunks).error = "none"
    /\ Len(pre[t].index.rows) = Len(LoadedStore(t))
    /\ \A i \in 1..Len(LoadedStore(t)) : pre[t].index.rows[i] = RowOf(LoadedStore(t)[i])

\* the scores of a result sequence never rise
ScoresDescend(results) ==
    \A i, j \in 1..Len(results) : i < j => results[i].score >= results[j].score

\* C13: a search on a consistent index and store of n >= 1 rows,
\* the embedding model being available, returns exactly min(top_k, n)
\* results, at most top_k of them, by non-increasing score.
C13_SearchReturnsMinTopKRows ==
    \A t \in Threads :
        (call[t].op = "search" /\ pc[t] \in {"done", "failed"}
         /\ Consistent(t) /\ LoadedStore(t) # <<>>
         /\ ret[t] # Raised("ModelUnavailable")) =>
            /\ pc[t] = "done"
            /\ Len(ret[t].results) = Min(call[t].top_k, Len(LoadedStore(t)))
            /\ Len(ret[t].results) <= call[t].top_k
            /\ ScoresDescend(ret[t].results)

\* C13 for top_k of 1 or more: a search returns from its index lookup only
\* when top_k is at least 1.  It then returns at most top_k results, with the scores the
\* lookup gave and in the lookup's order, which is by non-increasing score;
\* and on a consistent index and store of n rows it returns exactly
\* min(top_k, n) results, the lookup's first min(top_k, n) entries, each for
\* a position of its own inside the store.
C13_SearchReturnsMinTopKRowsForPositiveTopK ==
    \A t \in Threads : SearchAnswered(t) =>
        /\ call[t].top_k >= 1
        /\ Len(ret[t].results) <= call[t].top_k
        /\ ScoresDescend(ret[t].results)
        /\ \A j \in 1..Len(ret[t].results) : ret[t].results[j].score = Kept(t)[j].score
        /\ Consistent(t) =>
              LET n == Len(LoadedStore(t))
                  m == Min(call[t].top_k, n)
              IN  /\ Len(ret[t].results) = m
                  /\ \A j \in 1..m :
                        /\ Found(t)[j].idx \in 0..(n - 1)
                        /\ ret[t].results[j].score = Found(t)[j].score
                        /\ ret[t].results[j].text = LoadedStore(t)[Found(t)[j].idx + 1].text
                  /\ \A i, j \in 1..m : i # j => Found(t)[i].idx # Found(t)[j].idx

\* a search for more results than the three rows a consistent index holds:
\* three results, not all of one score
C13_ThreeRowsFound ==
    \E t \in Threads :
        /\ SearchAnswered(t) /\ Consistent(t)
        /\ Len(LoadedStore(t)) = 3
        /\ call[t].top_k = TOP_K
        /\ Len(ret[t].results) = 3
        /\ ret[t].results[1].score > ret[t].results[3].score

\* ---------------------------------------------------- chunk_text alone
\* chunk_text has returned its chunks
ChunkReturned == fn # NoCall /\ ~fn.running /\ fn.loop.error = "none"

\* the text chunk_text works on, and the texts of the chunks it returned
Trimmed == Strip(fn.arg)
ChunkTexts == [i \in 1..Len(fn.loop.chunks) |-> fn.loop.chunks[i].text]

\* the windows of c characters a text of n characters needs, c >= 1
Ceil(n, c) == (n + c - 1) \div c

\* The concatenation of slices.  Empty strings add nothing; slices that each
\* begin where the one before ends make the slice from the first's beginning
\* to the last's end; anything else is no slice of the document.
Scattered == [doc |-> -1, lo |-> 0, hi |-> 0]

Join(texts) ==
    LET p == SelectSeq(texts, LAMBDA s : s # EmptyText)
    IN  IF p = <<>> THEN EmptyText
        ELSE IF \A i \in 1..(Len(p) - 1) : p[i].doc = p[i + 1].doc /\ p[i].hi = p[i + 1].lo
        THEN [doc |-> p[1].doc, lo |-> p[1].lo, hi |-> p[Len(p)].hi]
        ELSE Scattered

\* the trimmed text needs no more than max_chunks windows of chunk_size
\* characters: none for an empty text, ceil(L / chunk_size) otherwise
FitsMaxChunks ==
    \/ fn.loop.text_len = 0 /\ fn.loop.max_chunks >= 0
    \/ /\ fn.loop.text_len > 0
       /\ fn.loop.chunk_size >= 1
       /\ Ceil(fn.loop.text_len, fn.loop.chunk_size) <= fn.loop.max_chunks

\* C14: when chunk_text returns for a text that needs no more than
\* max_chunks windows of chunk_size characters, the texts of its chunks
\* concatenated in order are the trimmed text, each chunk beginning exactly
\* where the one before it ends.
C14_ChunksPartitionTrimmedText ==
    (ChunkReturned /\ FitsMaxChunks) =>
        /\ Join(ChunkTexts) = Trimmed
        /\ \A i \in 1..(Len(ChunkTexts) - 1) :
              /\ ChunkTexts[i].doc = ChunkTexts[i + 1].doc
              /\ ChunkTexts[i].hi = ChunkTexts[i + 1].lo

\* a text with whitespace before it, of two windows, the second a short one
C14_Witness ==
    /\ ChunkReturned /\ FitsMaxChunks
    /\ fn.arg.lead > 0
    /\ fn.loop.chunk_size = DEFAULT_CHUNK_SIZE
    /\ Len(ChunkTexts) = 2
    /\ TextLen(ChunkTexts[2]) = 1

\* the windows of chunk_size characters the trimmed text needs, chunk_size >= 1
WindowsNeeded ==
    IF fn.loop.text_len = 0 THEN 0 ELSE Ceil(fn.loop.text_len, fn.loop.chunk_size)

\* window i of the trimmed text, counted from 1
Window(i) ==
    PySlice(Trimmed, (i - 1) * fn.loop.chunk_size, i * fn.loop.chunk_size)

\* C15 as claimed: chunk_text never returns more than max_chunks chunks, and
\* for a text that needs more than max_chunks windows of chunk_size
\* characters it returns exactly max_chunks chunks, the first max_chunks
\* windows of the text.
C15_TruncatedToMaxChunks ==
    ChunkReturned =>
        /\ Len(fn.loop.chunks) <= fn.loop.max_chunks
        /\ (fn.loop.chunk_size >= 1 /\ WindowsNeeded > fn.loop.max_chunks) =>
              /\ Len(fn.loop.chunks) = fn.loop.max_chunks
              /\ \A i \in 1..Len(fn.loop.chunks) : ChunkTexts[i] = Window(i)

\* C15 as amended: chunk_text never returns more than max(0, max_chunks)
\* chunks, and for a text within the size limit that needs more than
\* max_chunks windows of chunk_size >= 1 characters it returns, without an
\* error, exactly max(0, max_chunks) chunks, the first windows of the text;
\* the rest of a text that is not empty is in no chunk.
C15_TruncatedToMaxChunksOrNone ==
    /\ (fn # NoCall /\ fn.loop.chunk_size >= 1 /\ ~fn.running
        /\ fn.arg.body <= MAX_TEXT_LENGTH) => fn.loop.error = "none"
    /\ ChunkReturned =>
          /\ Len(fn.loop.chunks) <= Max(0, fn.loop.max_chunks)
          /\ (fn.loop.chunk_size >= 1 /\ WindowsNeeded > fn.loop.max_chunks) =>
                /\ Len(fn.loop.chunks) = Max(0, fn.loop.max_chunks)
                /\ \A i \in 1..Len(fn.loop.chunks) : ChunkTexts[i] = Window(i)
                /\ fn.loop.text_len > 0 => Join(ChunkTexts) # Trimmed
                /\ Join(ChunkTexts) =
                      PySlice(Trimmed, 0, Max(0, fn.loop.max_chunks) * fn.loop.chunk_size)

\* a text of 200,000 characters chunked with the defaults: 250 windows
\* needed, 200 chunks returned
C15_Witness ==
    /\ ChunkReturned
    /\ fn.loop.text_len = MAX_TEXT_LENGTH
    /\ fn.loop.chunk_size = DEFAULT_CHUNK_SIZE
    /\ fn.loop.max_chunks = DEFAULT_MAX_CHUNKS
    /\ Len(fn.loop.chunks) = DEFAULT_MAX_CHUNKS
    /\ fn.loop.start < fn.loop.text_len

\* every chunk is a non-empty text of at most chunk_size characters, every
\* chunk but the last has exactly chunk_size characters, every chunk has the
\* caller's source, and a text that is empty once trimmed gives no chunk
ChunksWellFormed ==
    LET chunks == fn.loop.chunks
    IN  /\ \A i \in 1..Len(chunks) :
              /\ chunks[i].text # EmptyText
              /\ TextLen(chunks[i].text) >= 1
              /\ TextLen(chunks[i].text) <= fn.loop.chunk_size
              /\ i < Len(chunks) => TextLen(chunks[i].text) = fn.loop.chunk_size
              /\ chunks[i].source = fn.loop.source
        /\ fn.arg.body = 0 => chunks = <<>>

\* C16: the chunks of every chunk_text call that returns are well formed.
C16_ReturnedChunksAreWellFormed == ChunkReturned => ChunksWellFormed

\* C16 for chunk_size of 1 or more: the chunks of every such call that
\* returns are well formed
C16_ChunksOfPositiveSizeAreWellFormed ==
    (ChunkReturned /\ fn.loop.chunk_size >= 1) => ChunksWellFormed

\* chunk_text is inside its call; it has returned or raised
ChunkRunning == fn # NoCall /\ fn.running
ChunkEnded == fn # NoCall /\ ~fn.running

\* C20 as claimed: the loop of chunk_text never makes more than max_chunks
\* passes, and for chunk_size >= 1 a call that returns has made exactly
\* min(max_chunks, ceil(L / chunk_size)) passes, L the trimmed length.
C20_LoopRunsMinOfMaxChunksAndWindows ==
    fn # NoCall =>
        /\ fn.loop.iterations <= fn.loop.max_chunks
        /\ (ChunkReturned /\ fn.loop.chunk_size >= 1) =>
              fn.loop.iterations =
                  Min(fn.loop.max_chunks, Ceil(fn.loop.text_len, fn.loop.chunk_size))

\* the passes made so far are within max(0, max_chunks), one chunk was
\* appended in each, and a call with chunk_size >= 1 that returns has made
\* exactly max(0, min(max_chunks, ceil(L / chunk_size))) of them
LoopIsBounded ==
    fn # NoCall =>
        /\ fn.loop.iterations <= Max(0, fn.loop.max_chunks)
        /\ fn.loop.iterations = Len(fn.loop.chunks)
        /\ (ChunkReturned /\ fn.loop.chunk_size >= 1) =>
              fn.loop.iterations =
                  Max(0, Min(fn.loop.max_chunks,
                             Ceil(fn.loop.text_len, fn.loop.chunk_size)))

\* C20 as amended: every chunk_text call ends, whatever integers chunk_size
\* and max_chunks are; its loop makes at most max(0, max_chunks) passes, and
\* for chunk_size >= 1 and a text within the size limit exactly
\* max(0, min(max_chunks, ceil(L / chunk_size))) passes.
C20_ChunkTextEndsWithinMaxChunksPasses ==
    /\ []LoopIsBounded
    /\ ChunkRunning ~> ChunkEnded

\* a call with chunk_size 0 that returned after max_chunks = 200 passes
C20_Witness ==
    /\ ChunkReturned
    /\ fn.loop.chunk_size = 0
    /\ fn.loop.max_chunks = DEFAULT_MAX_CHUNKS
    /\ fn.loop.iterations = DEFAULT_MAX_CHUNKS
    /\ fn.loop.start < fn.loop.text_len

\* ------------------------------------------------- search beside an ingest
\* the store as the ingest of thread u found it, and as it leaves it
StoreBefore(u) == load_chunks(pre[u].chunks).chunks
StoreAfter(u) == StoreBefore(u) \o pre[u].new

\* where a search holds the store it loaded
HoldsStore == {"search_exists"} \cup PastEmptyTest

\* C17: a search beside one ingest_text call that does not fail, the process
\* not crashing, the embedding model being available and top_k being at
\* least 1, does not fail, and the store it loaded is the whole store from
\* before the ingest or the whole store after it.
C17_SearchBesideIngestSeesWholeStore ==
    \A s, u \in Threads :
        (call[s].op = "search" /\ call[s].top_k >= 1
         /\ call[u].op = "ingest" /\ pc[u] # "failed" /\ nCrashes = 0) =>
            /\ pc[s] = "failed" => ret[s] = Raised("ModelUnavailable")
            /\ pc[s] \in HoldsStore =>
                  frame[s].chunks \in {StoreBefore(u), StoreAfter(u)}

\* C17, the first half alone: such a search does not fail
C17_SearchBesideIngestDoesNotFail ==
    \A s, u \in Threads :
        (call[s].op = "search" /\ call[s].top_k >= 1
         /\ call[u].op = "ingest" /\ pc[u] # "failed" /\ nCrashes = 0) =>
            (pc[s] = "failed" => ret[s] = Raised("ModelUnavailable"))

\* ------------------------------------------------------------- build_index
\* the chunks a one-at-a-time ingest_text gave to build_index: the store it
\* loaded followed by the chunks of its text
ChunksBuilt(t) == StoreBefore(t) \o pre[t].new

\* C18: when build_index has returned inside an ingest_text call, an empty
\* chunk sequence has left the index file as it was, present or not; a
\* sequence of n >= 1 chunks has left a readable index of exactly n rows and
\* nothing else, row i being the embedding of chunk i.
C18_IndexIsLeftOrReplaced ==
    \A t \in Threads : IngestDone(t) =>
        IF ChunksBuilt(t) = <<>>
        THEN indexFile = pre[t].index
        ELSE /\ indexFile.state = "ok"
             /\ Len(indexFile.rows) = Len(ChunksBuilt(t))
             /\ \A i \in 1..Len(ChunksBuilt(t)) :
                   indexFile.rows[i] = RowOf(ChunksBuilt(t)[i])

\* an index of one row replaced by one of 201 rows, built in seven batches
C18_Witness ==
    \E t \in Threads :
        /\ IngestDone(t)
        /\ pre[t].index.state = "ok" /\ Len(pre[t].index.rows) = 1
        /\ Len(ChunksBuilt(t)) = DEFAULT_MAX_CHUNKS + 1
        /\ Len(indexFile.rows) > 6 * BATCH_SIZE

\* an index of one row left as it was by build_index([])
C18_IndexLeftUntouched ==
    \E t \in Threads :
        /\ IngestDone(t)
        /\ ChunksBuilt(t) = <<>>
        /\ Len(indexFile.rows) = 1

\* --------------------------------------------------- _format_context alone
\* _format_context has returned
FormatEnded == fn # NoCall /\ fn.op = "_format_context" /\ ~fn.running

\* the length of the blocks of the first k hits
PrefixLen(k) ==
    SumLen([j \in 1..k |-> Block(j, fn.loop.hits[j])])

\* the hits before the first whose block takes the running total over
\* max_chars
FittingPrefix ==
    LET fitting == {k \in 0..Len(fn.loop.hits) :
                       \A j \in 1..k : PrefixLen(j) <= fn.loop.max_chars}
    IN  CHOOSE k \in fitting : \A j \in fitting : j <= k

\* the blocks of the fitting prefix, in the order of the hits, make up the
\* context returned for one hit or more
PrefixIncluded ==
    fn.loop.hits # <<>> =>
        fn.result.blocks = [j \in 1..FittingPrefix |-> Block(j, fn.loop.hits[j])]

\* C19: for one hit or more, _format_context returns the blocks of the hits
\* before the first one that takes the running total over max_chars, in
\* order, leaving out that hit and every later one, and what it returns is
\* never longer than max_chars characters.
C19_ContextIsFittingPrefixWithinBudget ==
    (FormatEnded /\ fn.loop.hits # <<>>) =>
        /\ PrefixIncluded
        /\ fn.result.len <= fn.loop.max_chars

\* C19, the first half alone
C19_ContextIsFittingPrefix == FormatEnded => PrefixIncluded

\* what is returned is longer than max_chars by no more than the
\* separators between the blocks, or is the text for no hits
C19_ContextIsWithinBudgetButForSeparators ==
    FormatEnded =>
        \/ fn.loop.hits = <<>> /\ fn.result = NoContext
        \/ fn.result.len - fn.result.seps <= fn.loop.max_chars

\* a later hit that would have fit is left out after one that did not
C19_LaterFittingHitLeftOut ==
    /\ FormatEnded
    /\ Len(fn.loop.hits) = 3
    /\ Len(fn.result.blocks) = 1
    /\ BlockLen(Block(1, fn.loop.hits[1])) + BlockLen(Block(3, fn.loop.hits[3]))
          < fn.loop.max_chars

\* --------------------------------------------- search beside serial ingests
\* where a search holds both the store it loaded and the index it read
HoldsIndex == {"emb_check", "emb_load", "query"}

\* the rows a search read and the store it loaded agree wherever both have a
\* position: row i is the embedding of loaded entry i
SnapshotAgrees ==
    \A s \in Threads : (call[s].op = "search" /\ pc[s] \in HoldsIndex) =>
        \A i \in 1..Min(Len(frame[s].rows), Len(frame[s].chunks)) :
            frame[s].rows[i] = RowOf(frame[s].chunks[i])

\* the step in which the search of thread s returns its results: every
\* result has the score of a row of the index read, and the source and text
\* of the loaded entry at that row's position, which is the chunk the row
\* was embedded from
ResultsAreOfMatchedRows(s) ==
    (call[s].op = "search" /\ pc[s] = "query" /\ pc'[s] = "done") =>
        LET rows == frame[s].rows
            chunks == frame[s].chunks
            found == TopK(call[s].query, rows, 1..Len(rows), call[s].top_k)
            kept == SelectSeq(found, LAMBDA f : f.idx >= 0 /\ f.idx < Len(chunks))
        IN  /\ Len(ret'[s].results) = Len(kept)
            /\ \A j \in 1..Len(kept) :
                  LET at == kept[j].idx + 1
                      r == ret'[s].results[j]
                  IN  /\ r.score = Sim(call[s].query, rows[at])
                      /\ rows[at] = RowOf(Chunk(r.source, r.text))
                      /\ Chunk(r.source, r.text) = chunks[at]
                      /\ \E line \in Range(chunksFile.lines) :
                            Loads(line) = Chunk(r.source, r.text)

\* C21: with one ingest_text at a time and each file written in one step, a
\* search that runs beside the ingests at any point holds an index and a
\* store that agree at every position both have, and every result it
\* returns has the score of a row it read together with the source and text
\* of the chunk that row was embedded from.
C21_ResultsCarryTheIndexedChunk ==
    /\ []SnapshotAgrees
    /\ [][\A s \in Threads : ResultsAreOfMatchedRows(s)]_vars

\* a search that ran between the two writes of an ingest: it was called
\* when the store already had three chunks, read the index of one row, and
\* returned one result, the ingest not yet having written its index
C21_Witness ==
    \E s, u \in Threads :
        /\ call[s].op = "search" /\ pc[s] = "done"
        /\ call[s].top_k = TOP_K
        /\ Len(pre[s].chunks.lines) = 3
        /\ Len(ret[s].results) = 1
        /\ call[u].op = "ingest" /\ pc[u] \in {"emb_check", "emb_load", "encode", "index_open"}
        /\ nCrashes = 0

\* ------------------------------------------------------- search's effects
\* a step of the search of thread t: its call, one of its steps, or its
\* return to the caller; the death of the process is no step of it
SearchStep(t) ==
    /\ nCrashes' = nCrashes
    /\ \/ call[t].op = "search" /\ pc'[t] # pc[t]
       \/ call[t].op # "search" /\ call'[t].op = "search"

\* both files are as the search of thread t found them when called
FilesAsFound(t) == chunksFile = pre[t].chunks /\ indexFile = pre[t].index

\* C22: no step of a search changes the store file or the index file, nor
\* anything of another thread; what it may change of the process is the
\* embedder.  With calls made one at a time, a search that has returned
\* results, returned none or failed has left both files as it found them.
C22_SearchChangesNoFile ==
    /\ [](\A t \in Threads :
             (call[t].op = "search" /\ Cardinality({u \in Threads : pc[u] # "idle"}) = 1)
                 => FilesAsFound(t))
    /\ [][\A t \in Threads : SearchStep(t) =>
             /\ UNCHANGED <<chunksFile, indexFile, crashed>>
             /\ \A u \in Threads \ {t} :
                   UNCHANGED <<pc[u], call[u], frame[u], ret[u], pre[u]>>]_vars

\* a search that returned results after loading the embedder: it is the
\* one call made since the process was started again
C22_Witness ==
    \E t \in Threads :
        /\ call[t].op = "search" /\ pc[t] = "done"
        /\ ret[t].results # <<>>
        /\ nCrashes = 1 /\ nCalls = 2
        /\ embedder = "loaded" /\ modelLoads = 1
        /\ FilesAsFound(t)

====
